---- MODULE Spec2Model ----
(***************************************************************************)
(* Model of src/index.ts: the permission checker checkPathPermissions and  *)
(* the three Express routes (GET /, GET /demo, GET /cpu) running on one    *)
(* cooperative execution context.                                          *)
(*                                                                         *)
(* The execution context is the variable `running`: 0 when the event loop  *)
(* is free to start a handler or to deliver the completion of a            *)
(* filesystem probe, and r while synchronous code of request r (or the     *)
(* promise continuations it has made runnable) holds the call stack.  An   *)
(* `await` on a filesystem probe releases the context; the continuation    *)
(* runs when the probe's completion is delivered.                          *)
(***************************************************************************)
EXTENDS Integers, Sequences, FiniteSets, TLC

\* Number of entries of pathsToProcess that are checked (a prefix of the list).
NumPaths == 2

\* Iterations of the /cpu loop (stands for the 5_000_000_000 of the source).
MaxIter == 2

\* The five entries of pathsToProcess, by their unresolved names.
AllPaths ==
  <<"./", "./package.json", "./dist", "./a-fake-file-that-does-not-exist.txt", "/root/test.txt">>

pathsToProcess == SubSeq(AllPaths, 1, NumPaths)

\* One request per route; each may arrive at any time, in any order.
Workload == <<"/demo", "/cpu", "/">>

Requests == DOMAIN Workload

\* Outcomes of fs.promises.stat: the entry is a directory, it is something
\* else, or the call fails with the named error code.
StatOutcomes == {"dir", "file", "ENOENT", "EACCES"}

\* Outcomes of fs.promises.access.
AccessOutcomes == {"ok", "EACCES"}

Outcomes(probe) == IF probe = "stat" THEN StatOutcomes ELSE AccessOutcomes

\* The message thrown by a statement of the /demo try block other than a probe.
ReportFault == "report fault"

VARIABLES
  pc,           \* pc[r]: position of request r's handler
  running,      \* request whose synchronous code holds the execution context, or 0
  checks,       \* checks[r][k]: the k-th checkPathPermissions call of /demo request r
  values,       \* values[r]: the value array of the Promise.all of request r
  firstSettled, \* firstSettled[r]: index of the check of request r that settled first, or 0
  err,          \* err[r]: message of the error caught by the /demo handler, "" if none
  cpuI,         \* cpuI[r]: loop counter i of /cpu request r
  resp,         \* resp[r]: the responses sent for request r, in order
  log           \* console output

vars == <<pc, running, checks, values, firstSettled, err, cpuI, resp, log>>

----------------------------------------------------------------------------
(* checkPathPermissions *)

\* The result object as constructed; error is <<>> while the field is absent.
NewResult(targetPath) ==
  [path |-> targetPath, type |-> "Unknown", exists |-> FALSE,
   canRead |-> FALSE, canWrite |-> FALSE, error |-> <<>>]

\* An unfilled slot of a Promise.all value array.
Hole == [NewResult("<empty>") EXCEPT !.type = "<empty>"]

\* The call up to its first await: the result object exists and the stat
\* probe is in flight.  pc names the probe awaited, or how the promise
\* settled; probes lists the probes that completed and their outcomes.
checkPathPermissions(targetPath) ==
  [pc |-> "stat", result |-> NewResult(targetPath), probes |-> <<>>, reason |-> ""]

\* Faulty variant of OuterCatch: an error other than ENOENT is thrown again.
OuterCatchRethrow(c, code) ==
  IF code = "ENOENT"
    THEN [c EXCEPT !.result.error = <<"Path does not exist.">>, !.pc = "fulfilled"]
    ELSE [c EXCEPT !.pc = "rejected", !.reason = code]

\* Faulty variant of OuterCatch: the test of error.code is inverted.
OuterCatchInverted(c, code) ==
  [c EXCEPT !.result.error =
              IF code # "ENOENT" THEN <<"Path does not exist.">>
              ELSE <<"An unexpected error occurred: ", code>>,
            !.pc = "fulfilled"]

\* The outer catch block, then `return result`.
OuterCatch(c, code) ==
  [c EXCEPT !.result.error =
              IF code = "ENOENT" THEN <<"Path does not exist.">>
              ELSE <<"An unexpected error occurred: ", code>>,
            !.pc = "fulfilled"]

\* Continuation of `await fs.promises.stat(targetPath)`.
AfterStat(c, out) ==
  IF out \in {"dir", "file"}
    THEN [c EXCEPT !.result.exists = TRUE,
                   !.result.type = IF out = "dir" THEN "Folder" ELSE "File",
                   !.pc = "read"]
    ELSE OuterCatch(c, out)

\* Faulty variant of ReadCatch: no inner catch, the error reaches the outer catch.
ReadCatchMissing(c, code) == OuterCatch(c, code)

\* Faulty variant of ReadCatch: the read probe is issued again after its first failure.
ReadCatchRetry(c, code) ==
  IF Len(SelectSeq(c.probes, LAMBDA p : p[1] = "read")) < 2
    THEN [c EXCEPT !.pc = "read"]
    ELSE [c EXCEPT !.result.canRead = FALSE, !.pc = "write"]

\* catch (readError), falling through to the write probe.
ReadCatch(c, code) == [c EXCEPT !.result.canRead = FALSE, !.pc = "write"]

\* Continuation of `await fs.promises.access(targetPath, R_OK)`.
AfterRead(c, out) ==
  IF out = "ok"
    THEN [c EXCEPT !.result.canRead = TRUE, !.pc = "write"]
    ELSE ReadCatch(c, out)

\* catch (writeError), falling through to `return result`.
WriteCatch(c, code) == [c EXCEPT !.result.canWrite = FALSE, !.pc = "fulfilled"]

\* Faulty variant of AfterWrite: the write block assigns what the read block found.
AfterWriteCopiesRead(c, out) ==
  [c EXCEPT !.result.canWrite = c.result.canRead, !.pc = "fulfilled"]

\* Continuation of `await fs.promises.access(targetPath, W_OK)`.
AfterWrite(c, out) ==
  IF out = "ok"
    THEN [c EXCEPT !.result.canWrite = TRUE, !.pc = "fulfilled"]
    ELSE WriteCatch(c, out)

\* The continuation that runs when the probe awaited by call c completes
\* with outcome out.
CheckStep(c, out) ==
  LET c0 == [c EXCEPT !.probes = Append(@, <<c.pc, out>>)]
  IN  CASE c.pc = "stat" -> AfterStat(c0, out)
        [] c.pc = "read" -> AfterRead(c0, out)
        [] c.pc = "write" -> AfterWrite(c0, out)

----------------------------------------------------------------------------
(* Promise.all *)

\* Index of the first unfilled slot of vals (0 if none).
FirstHole(vals) ==
  IF \E i \in DOMAIN vals : vals[i] = Hole
    THEN CHOOSE i \in DOMAIN vals : vals[i] = Hole /\ \A j \in 1..(i - 1) : vals[j] # Hole
    ELSE 0

\* Faulty variant of StoreValue: values are collected in the order they arrive.
StoreValuePush(vals, index, v) == [vals EXCEPT ![FirstHole(vals)] = v]

\* A fulfilled input promise stores its value at the index of the input.
StoreValue(vals, index, v) == [vals EXCEPT ![index] = v]

\* Faulty variant of PromiseAllResolved: the combined promise resolves with the first value.
PromiseAnyResolved(vals) == \E i \in DOMAIN vals : vals[i] # Hole

\* The combined promise resolves once every slot is filled.
PromiseAllResolved(vals) == \A i \in DOMAIN vals : vals[i] # Hole

----------------------------------------------------------------------------
(* Responses *)

Response(status, kind, results, details) ==
  [status |-> status, kind |-> kind, results |-> results, details |-> details]

Send(r, response) == resp' = [resp EXCEPT ![r] = Append(@, response)]

----------------------------------------------------------------------------
Init ==
  /\ pc = [r \in Requests |-> "none"]
  /\ running = 0
  /\ checks = [r \in Requests |-> <<>>]
  /\ values = [r \in Requests |-> <<>>]
  /\ firstSettled = [r \in Requests |-> 0]
  /\ err = [r \in Requests |-> ""]
  /\ cpuI = [r \in Requests |-> 0]
  /\ resp = [r \in Requests |-> <<>>]
  /\ log = <<>>

\* A request reaches the server; it waits until the event loop dispatches it.
Arrive(r) ==
  /\ pc[r] = "none"
  /\ pc' = [pc EXCEPT ![r] = "pending"]
  /\ UNCHANGED <<running, checks, values, firstSettled, err, cpuI, resp, log>>

\* app.get('/')
WelcomeHandler(r) ==
  /\ running = 0
  /\ pc[r] = "pending"
  /\ Workload[r] = "/"
  /\ Send(r, Response(200, "welcome", <<>>, ""))
  /\ pc' = [pc EXCEPT ![r] = "done"]
  /\ UNCHANGED <<running, checks, values, firstSettled, err, cpuI, log>>

\* app.get('/demo') up to `await Promise.all(checkPromises)`.
DemoHandler(r) ==
  /\ running = 0
  /\ pc[r] = "pending"
  /\ Workload[r] = "/demo"
  /\ log' = Append(log, "demo: received")
  /\ checks' = [checks EXCEPT ![r] =
                  [k \in DOMAIN pathsToProcess |-> checkPathPermissions(pathsToProcess[k])]]
  /\ values' = [values EXCEPT ![r] = [k \in DOMAIN pathsToProcess |-> Hole]]
  /\ pc' = [pc EXCEPT ![r] = "await"]
  /\ UNCHANGED <<running, firstSettled, err, cpuI, resp>>

\* The event loop delivers the completion of the probe that check k of
\* request r awaits; the continuation of the check runs, and with it the
\* reaction of Promise.all when the check settles.
ProbeComplete(r, k) ==
  /\ running = 0
  /\ k \in DOMAIN checks[r]
  /\ checks[r][k].pc \in {"stat", "read", "write"}
  /\ \E out \in Outcomes(checks[r][k].pc) :
       LET c == CheckStep(checks[r][k], out)
           vals == IF c.pc = "fulfilled" THEN StoreValue(values[r], k, c.result)
                   ELSE values[r]
           rejects == c.pc = "rejected" /\ pc[r] = "await"
           resolves == c.pc = "fulfilled" /\ pc[r] = "await" /\ PromiseAllResolved(vals)
       IN  /\ checks' = [checks EXCEPT ![r][k] = c]
           /\ values' = [values EXCEPT ![r] = vals]
           /\ firstSettled' = [firstSettled EXCEPT ![r] =
                                 IF c.pc \in {"fulfilled", "rejected"} /\ @ = 0 THEN k ELSE @]
           /\ pc' = [pc EXCEPT ![r] =
                       IF rejects THEN "catch" ELSE IF resolves THEN "resumed" ELSE @]
           /\ err' = [err EXCEPT ![r] = IF rejects THEN c.reason ELSE @]
           /\ running' = IF rejects \/ resolves THEN r ELSE 0
  /\ UNCHANGED <<cpuI, resp, log>>

\* Faulty variant of DemoSend: the report is emitted before the statement that faults.
DemoSendEmitThenFault(r) ==
  /\ running = r
  /\ pc[r] = "resumed"
  /\ log' = Append(log, "demo: complete")
  /\ Send(r, Response(200, "report", values[r], ""))
  /\ pc' = [pc EXCEPT ![r] = "catch"]
  /\ err' = [err EXCEPT ![r] = ReportFault]
  /\ UNCHANGED <<running, checks, values, firstSettled, cpuI>>

\* Faulty variant of DemoSend: a result that carries an error is thrown.
DemoSendThrowsOnError(r) ==
  /\ running = r
  /\ pc[r] = "resumed"
  /\ log' = Append(log, "demo: complete")
  /\ IF \E i \in DOMAIN values[r] : values[r][i].error # <<>>
       THEN /\ pc' = [pc EXCEPT ![r] = "catch"]
            /\ err' = [err EXCEPT ![r] = "probe failed"]
            /\ UNCHANGED <<running, resp>>
       ELSE /\ Send(r, Response(200, "report", values[r], ""))
            /\ pc' = [pc EXCEPT ![r] = "done"]
            /\ running' = 0
            /\ UNCHANGED err
  /\ UNCHANGED <<checks, values, firstSettled, cpuI>>

\* The rest of the try block after the await: the log line and
\* res.status(200).json(report).  Building or sending the report either
\* succeeds or throws before anything is emitted.
DemoSend(r) ==
  /\ running = r
  /\ pc[r] = "resumed"
  /\ log' = Append(log, "demo: complete")
  /\ \E fault \in BOOLEAN :
       IF fault
         THEN /\ pc' = [pc EXCEPT ![r] = "catch"]
              /\ err' = [err EXCEPT ![r] = ReportFault]
              /\ UNCHANGED <<running, resp>>
         ELSE /\ Send(r, Response(200, "report", values[r], ""))
              /\ pc' = [pc EXCEPT ![r] = "done"]
              /\ running' = 0
              /\ UNCHANGED err
  /\ UNCHANGED <<checks, values, firstSettled, cpuI>>

\* The catch block of the /demo handler.
DemoCatch(r) ==
  /\ running = r
  /\ pc[r] = "catch"
  /\ log' = Append(log, "demo: error")
  /\ Send(r, Response(500, "error", <<>>, err[r]))
  /\ pc' = [pc EXCEPT ![r] = "done"]
  /\ running' = 0
  /\ UNCHANGED <<checks, values, firstSettled, err, cpuI>>

\* app.get('/cpu') up to the start of the loop.
CpuHandler(r) ==
  /\ running = 0
  /\ pc[r] = "pending"
  /\ Workload[r] = "/cpu"
  /\ log' = Append(log, "cpu: received")
  /\ pc' = [pc EXCEPT ![r] = "loop"]
  /\ cpuI' = [cpuI EXCEPT ![r] = 0]
  /\ running' = r
  /\ UNCHANGED <<checks, values, firstSettled, err, resp>>

\* Faulty variant of CpuIter: the loop body awaits, releasing the execution context.
CpuIterYields(r) ==
  /\ running \in {0, r}
  /\ pc[r] = "loop"
  /\ cpuI[r] < MaxIter
  /\ cpuI' = [cpuI EXCEPT ![r] = @ + 1]
  /\ running' = 0
  /\ UNCHANGED <<pc, checks, values, firstSettled, err, resp, log>>

\* One iteration of the loop of intensiveCalculation.
CpuIter(r) ==
  /\ running = r
  /\ pc[r] = "loop"
  /\ cpuI[r] < MaxIter
  /\ cpuI' = [cpuI EXCEPT ![r] = @ + 1]
  /\ UNCHANGED <<pc, running, checks, values, firstSettled, err, resp, log>>

\* The loop has ended: the log line and the response of /cpu.
CpuRespond(r) ==
  /\ running = r
  /\ pc[r] = "loop"
  /\ cpuI[r] = MaxIter
  /\ log' = Append(log, "cpu: finished")
  /\ Send(r, Response(200, "cpu", <<>>, ""))
  /\ pc' = [pc EXCEPT ![r] = "done"]
  /\ running' = 0
  /\ UNCHANGED <<checks, values, firstSettled, err, cpuI>>

Next ==
  \E r \in Requests :
    \/ Arrive(r)
    \/ WelcomeHandler(r)
    \/ DemoHandler(r)
    \/ \E k \in 1..NumPaths : ProbeComplete(r, k)
    \/ DemoSend(r)
    \/ DemoCatch(r)
    \/ CpuHandler(r)
    \/ CpuIter(r)
    \/ CpuRespond(r)

Spec == Init /\ [][Next]_vars

----------------------------------------------------------------------------
(* Properties *)

DemoRequests == {r \in Requests : Workload[r] = "/demo"}

CpuRequests == {r \in Requests : Workload[r] = "/cpu"}

\* The calls of checkPathPermissions that exist, as <<request, index>>.
Calls == {rk \in Requests \X (1..NumPaths) : rk[2] \in DOMAIN checks[rk[1]]}

Call(rk) == checks[rk[1]][rk[2]]

\* The calls whose promise has resolved, i.e. that returned their result.
Returned == {rk \in Calls : Call(rk).pc = "fulfilled"}

\* Number of times call c has attempted probe op: the completed attempts
\* and the one in flight.
Attempts(c, op) ==
  Len(SelectSeq(c.probes, LAMBDA p : p[1] = op)) + (IF c.pc = op THEN 1 ELSE 0)

\* Call c has seen probe op complete with outcome out.
Saw(c, op, out) == \E i \in DOMAIN c.probes : c.probes[i] = <<op, out>>

StatSucceeded(c) == Saw(c, "stat", "dir") \/ Saw(c, "stat", "file")

StatFailed(c) == Saw(c, "stat", "ENOENT") \/ Saw(c, "stat", "EACCES")

Reports(r) == {j \in DOMAIN resp[r] : resp[r][j].kind = "report"}

\* C1: checkPathPermissions never rejects: whatever the outcomes of the
\* existence, read and write probes, a call is either still awaiting a probe
\* or its promise has resolved with the result for its path.
C1_NeverRejects ==
  \A rk \in Calls :
    /\ Call(rk).pc \in {"stat", "read", "write", "fulfilled"}
    /\ Call(rk).reason = ""
    /\ Call(rk).result.path = pathsToProcess[rk[2]]

\* C1 witness: one call returned after an existence probe that failed with
\* an error other than ENOENT, another after both access probes failed.
C1_Witness ==
  \E a, b \in Returned :
    /\ Call(a).probes = <<(<<"stat", "EACCES">>)>>
    /\ Call(b).probes = <<(<<"stat", "dir">>), <<"read", "EACCES">>, <<"write", "EACCES">>>>

\* C2: every returned PermissionResult has: exists false implies canRead and
\* canWrite false and type Unknown; exists true implies type File or Folder
\* and error absent.
C2_ResultInvariant ==
  \A rk \in Returned :
    LET res == Call(rk).result
    IN  /\ ~res.exists => (~res.canRead /\ ~res.canWrite /\ res.type = "Unknown")
        /\ res.exists => (res.type \in {"File", "Folder"} /\ res.error = <<>>)

\* C2 witness: a returned result whose read probe failed after the existence
\* probe succeeded, next to one whose existence probe failed.
C2_Witness ==
  \E a, b \in Returned :
    /\ Call(a).probes = <<(<<"stat", "file">>), <<"read", "EACCES">>, <<"write", "ok">>>>
    /\ Call(a).result.exists
    /\ StatFailed(Call(b))
    /\ ~Call(b).result.exists

\* C3: the results of a /demo report have the length of the path list and
\* results[i].path = paths[i], whatever the order in which the checks settle.
C3_OrderPreserved ==
  \A r \in DemoRequests : \A j \in Reports(r) :
    /\ Len(resp[r][j].results) = Len(pathsToProcess)
    /\ \A i \in DOMAIN pathsToProcess : resp[r][j].results[i].path = pathsToProcess[i]

\* C3 witness: a report was sent although the second check settled first.
C3_Witness ==
  \E r \in DemoRequests :
    /\ Reports(r) # {}
    /\ firstSettled[r] = 2

\* C4: the status of /demo does not depend on the probes: a 500 is sent only
\* for a fault of the aggregation step itself (the handler's try block after
\* the checks), and a handler that finished without such a fault sent the
\* 200 report, even if every path failed its existence or access probes.
C4_StatusIgnoresProbes ==
  \A r \in DemoRequests :
    /\ \A j \in DOMAIN resp[r] :
         /\ resp[r][j].status \in {200, 500}
         /\ resp[r][j].status = 500 => resp[r][j].details = ReportFault
    /\ (pc[r] = "done" /\ err[r] = "") =>
         (Len(resp[r]) = 1 /\ resp[r][1].status = 200 /\ resp[r][1].kind = "report")

\* C4 witness: the 200 report was sent and no path of it passed a probe
\* other than the existence probe.
C4_Witness ==
  \E r \in DemoRequests :
    /\ Reports(r) # {}
    /\ \A j \in Reports(r) :
         /\ resp[r][j].status = 200
         /\ \A i \in DOMAIN resp[r][j].results :
              ~resp[r][j].results[i].canRead /\ ~resp[r][j].results[i].canWrite
         /\ \E i \in DOMAIN resp[r][j].results : resp[r][j].results[i].error # <<>>
         /\ \E i \in DOMAIN resp[r][j].results : resp[r][j].results[i].exists

\* C5: a call whose existence probe failed with ENOENT returns exists=false,
\* type=Unknown, canRead=false, canWrite=false, error="Path does not exist.",
\* and the input path.
C5_NotFoundResult ==
  \A rk \in Returned :
    Saw(Call(rk), "stat", "ENOENT") =>
      Call(rk).result =
        [path |-> pathsToProcess[rk[2]], type |-> "Unknown", exists |-> FALSE,
         canRead |-> FALSE, canWrite |-> FALSE, error |-> <<"Path does not exist.">>]

\* C5 witness: a call returned after its existence probe failed with ENOENT.
C5_Witness ==
  \E rk \in Returned : Call(rk).probes = <<(<<"stat", "ENOENT">>)>>

\* C6: when the existence probe succeeded, canRead is true iff the read
\* probe succeeded and canWrite is true iff the write probe succeeded, and
\* the write probe is made whatever the read probe gave.
C6_IndependentAccess ==
  \A rk \in Calls :
    LET c == Call(rk)
    IN  /\ (StatSucceeded(c) /\ c.pc = "fulfilled") =>
             /\ c.result.canRead <=> Saw(c, "read", "ok")
             /\ c.result.canWrite <=> Saw(c, "write", "ok")
             /\ Attempts(c, "read") = 1
             /\ Attempts(c, "write") = 1
        /\ Saw(c, "read", "EACCES") => Attempts(c, "write") = 1

\* C6 witness: one result is readable and not writable, another is writable
\* and not readable.
C6_Witness ==
  \E a, b \in Returned :
    /\ Call(a).result.exists /\ Call(a).result.canRead /\ ~Call(a).result.canWrite
    /\ Call(b).result.exists /\ ~Call(b).result.canRead /\ Call(b).result.canWrite

\* C7: no response to a /demo request is sent while one of its checks is
\* pending, and a report holds the result of every input path.
C7_NoPartialResults ==
  \A r \in DemoRequests :
    resp[r] # <<>> =>
      /\ \A k \in DOMAIN checks[r] : checks[r][k].pc \notin {"stat", "read", "write"}
      /\ DOMAIN checks[r] = DOMAIN pathsToProcess
      /\ \A j \in Reports(r) :
           /\ DOMAIN resp[r][j].results = DOMAIN pathsToProcess
           /\ \A i \in DOMAIN pathsToProcess :
                resp[r][j].results[i] = checks[r][i].result

\* C7 witness: a report was sent after checks that each made all three
\* probes, the first check settling first.
C7_Witness ==
  \E r \in DemoRequests :
    /\ Reports(r) # {}
    /\ \A k \in DOMAIN checks[r] : Len(checks[r][k].probes) = 3
    /\ firstSettled[r] = 1

\* C8: between the start of a /cpu handler and its response no other handler
\* step runs: no other request is started or answered and no probe
\* completion is processed (a request may still reach the server).
C8_CpuBlocks ==
  [][\A r \in CpuRequests :
       pc[r] = "loop" =>
         /\ checks' = checks
         /\ values' = values
         /\ \A q \in Requests \ {r} :
              /\ resp'[q] = resp[q]
              /\ pc'[q] # pc[q] => (pc[q] = "none" /\ pc'[q] = "pending")]_vars

\* C8 witness: /cpu was started while /demo awaited its probes, and now, the
\* loop finished and the response not yet sent, /demo still awaits a probe
\* and the welcome request still waits to be started.
C8_Witness ==
  \E r \in CpuRequests : \E d \in DemoRequests : \E w \in Requests :
    /\ log = <<"demo: received", "cpu: received">>
    /\ pc[r] = "loop" /\ cpuI[r] = MaxIter /\ running = r
    /\ pc[d] = "await"
    /\ \E k \in DOMAIN checks[d] : checks[d][k].pc = "read"
    /\ Workload[w] = "/" /\ pc[w] = "pending"

\* C9 as stated: every call attempts each of the three probes exactly once.
C9_ExactlyOnceEach ==
  \A rk \in Returned :
    \A op \in {"stat", "read", "write"} : Attempts(Call(rk), op) = 1

\* C9 amended: no probe is attempted twice; a returned call made the
\* existence probe once, and the read and write probes once each if the
\* existence probe succeeded and not at all if it failed.
C9_NoRetries ==
  \A rk \in Calls :
    LET c == Call(rk)
    IN  /\ \A op \in {"stat", "read", "write"} : Attempts(c, op) <= 1
        /\ c.pc = "fulfilled" =>
             /\ Attempts(c, "stat") = 1
             /\ StatSucceeded(c) => (Attempts(c, "read") = 1 /\ Attempts(c, "write") = 1)
             /\ StatFailed(c) => (Attempts(c, "read") = 0 /\ Attempts(c, "write") = 0)

\* C9 witness: one call returned after failed read and write probes, another
\* after a failed existence probe.
C9_Witness ==
  \E a, b \in Returned :
    /\ Saw(Call(a), "read", "EACCES") /\ Saw(Call(a), "write", "EACCES")
    /\ Len(Call(a).probes) = 3
    /\ StatFailed(Call(b)) /\ Len(Call(b).probes) = 1

\* C10: a /demo request gets at most one response, and exactly one once its
\* handler has finished: the 200 report or the 500 envelope, never both.
C10_ExactlyOneResponse ==
  \A r \in DemoRequests :
    /\ Len(resp[r]) <= 1
    /\ pc[r] = "done" => Len(resp[r]) = 1
    /\ pc[r] \in {"none", "pending", "await", "resumed", "catch"} => resp[r] = <<>>

\* C10 witness: the try block faulted after the checks, and the handler
\* finished having sent the 500 envelope alone.
C10_Witness ==
  \E r \in DemoRequests :
    /\ pc[r] = "done"
    /\ err[r] = ReportFault
    /\ Len(resp[r]) = 1
    /\ resp[r][1].status = 500

====
